---- MODULE Spec2Model ----
(***************************************************************************)
(* trackforge (src/app.py): a single-table task tracker.  The state is the *)
(* Task table, the calendar date the handlers read through date.today(),   *)
(* the last request with its response, and, as a history of the run, the   *)
(* ids whose delete has been committed.  There is one action per request   *)
(* handler, and one for the passing of a day.  A handler reads the date as *)
(* of one instant: no midnight falls inside a request.                     *)
(*                                                                         *)
(* Strings the handlers parse are sequences of one-character strings       *)
(* (the character U+00B2 SUPERSCRIPT TWO is written "sup2"); dates are     *)
(* <<year, month, day>>; an optional value is {} (None, NULL) or {value}.  *)
(* created_at, which no handler reads, is left out of the rows.            *)
(***************************************************************************)
EXTENDS Integers, Sequences, FiniteSets, TLC

VARIABLES tasks, today, resp, deleted

vars == <<tasks, today, resp, deleted>>

(***************************************************************************)
(* Bounds of the model.                                                    *)
(***************************************************************************)
\* Add is explored while the id it would assign is at most MaxId.
MaxId == 2
\* The date advances at most MaxTicks days past StartDate.
MaxTicks == 1
\* The today-view is checked on stores of at most MaxViewTasks tasks.
MaxViewTasks == 5
\* The add form is explored while the id it would assign is at most MaxAddId.
MaxAddId == 2

StartDate == <<2024, 2, 29>>

(***************************************************************************)
(* Python's str methods and int(), on sequences of characters.             *)
(***************************************************************************)
DecimalChars == <<"0", "1", "2", "3", "4", "5", "6", "7", "8", "9">>

IsDecimalChar(c) == \E i \in 1..Len(DecimalChars) : DecimalChars[i] = c

DigitVal(c) == (CHOOSE i \in 1..Len(DecimalChars) : DecimalChars[i] = c) - 1

\* str.isdigit() is true of the decimal digits and of the characters whose
\* Unicode Numeric_Type is Digit, such as the superscript digits.
IsDigitChar(c) == IsDecimalChar(c) \/ c = "sup2"

IsSpaceChar(c) == c = " "

isdigit(s) == Len(s) > 0 /\ \A i \in 1..Len(s) : IsDigitChar(s[i])

RECURSIVE lstrip(_)
lstrip(s) ==
  IF Len(s) > 0 /\ IsSpaceChar(Head(s)) THEN lstrip(Tail(s)) ELSE s

RECURSIVE rstrip(_)
rstrip(s) ==
  IF Len(s) > 0 /\ IsSpaceChar(s[Len(s)])
    THEN rstrip(SubSeq(s, 1, Len(s) - 1))
    ELSE s

strip(s) == rstrip(lstrip(s))

RECURSIVE DecimalValue(_)
DecimalValue(s) ==
  IF Len(s) = 0 THEN 0
  ELSE 10 * DecimalValue(SubSeq(s, 1, Len(s) - 1)) + DigitVal(s[Len(s)])

\* int(s): surrounding whitespace and one sign are accepted, then decimal
\* digits only; anything else raises ValueError (ok = FALSE).  A superscript
\* digit is no decimal digit: int("sup2") raises although isdigit holds.
int(s) ==
  LET body == strip(s)
      signed == Len(body) > 0 /\ body[1] \in {"+", "-"}
      digits == IF signed THEN Tail(body) ELSE body
      valid == Len(digits) > 0 /\ \A i \in 1..Len(digits) : IsDecimalChar(digits[i])
  IN  IF ~valid THEN [ok |-> FALSE, val |-> 0]
      ELSE [ok |-> TRUE,
            val |-> IF signed /\ body[1] = "-"
                      THEN 0 - DecimalValue(digits)
                      ELSE DecimalValue(digits)]

Min(a, b) == IF a <= b THEN a ELSE b

Max(a, b) == IF a >= b THEN a ELSE b

(***************************************************************************)
(* datetime.date: comparison, isoformat(), fromisoformat(), the next day.  *)
(***************************************************************************)
IsLeap(y) == y % 4 = 0 /\ (y % 100 # 0 \/ y % 400 = 0)

DaysInMonth(y, m) ==
  IF m = 2 THEN (IF IsLeap(y) THEN 29 ELSE 28)
  ELSE IF m \in {4, 6, 9, 11} THEN 30 ELSE 31

DateLE(a, b) ==
  \/ a[1] < b[1]
  \/ a[1] = b[1] /\ a[2] < b[2]
  \/ a[1] = b[1] /\ a[2] = b[2] /\ a[3] <= b[3]

NextDay(d) ==
  IF d[3] < DaysInMonth(d[1], d[2]) THEN <<d[1], d[2], d[3] + 1>>
  ELSE IF d[2] < 12 THEN <<d[1], d[2] + 1, 1>>
  ELSE <<d[1] + 1, 1, 1>>

RECURSIVE Pad(_, _)
Pad(n, width) ==
  IF width = 0 THEN <<>>
  ELSE Append(Pad(n \div 10, width - 1), DecimalChars[(n % 10) + 1])

isoformat(d) == Pad(d[1], 4) \o <<"-">> \o Pad(d[2], 2) \o <<"-">> \o Pad(d[3], 2)

\* date.fromisoformat(s) on the extended format YYYY-MM-DD; any other
\* string of the inputs explored below raises ValueError (ok = FALSE).
fromisoformat(s) ==
  LET shaped == /\ Len(s) = 10
                /\ s[5] = "-" /\ s[8] = "-"
                /\ \A i \in {1, 2, 3, 4, 6, 7, 9, 10} : IsDecimalChar(s[i])
      y == DecimalValue(SubSeq(s, 1, 4))
      m == DecimalValue(SubSeq(s, 6, 7))
      d == DecimalValue(SubSeq(s, 9, 10))
  IN  IF shaped /\ y >= 1 /\ m \in 1..12 /\ d >= 1 /\ d <= DaysInMonth(y, m)
        THEN [ok |-> TRUE, val |-> <<y, m, d>>]
        ELSE [ok |-> FALSE, val |-> <<>>]

(***************************************************************************)
(* The Task table.                                                         *)
(***************************************************************************)
None == {}

Some(x) == {x}

Ids(store) == {t.id : t \in store}

\* Task.query.get(task_id): the row, for an id the table holds.
Fetch(store, task_id) == CHOOSE t \in store : t.id = task_id

\* The id SQLite gives a row inserted without one: the table's largest id
\* plus one, and 1 for an empty table (INTEGER PRIMARY KEY is the rowid, and
\* the column is not declared AUTOINCREMENT).
NextId(store) ==
  IF store = {} THEN 1
  ELSE (CHOOSE i \in Ids(store) : \A j \in Ids(store) : j <= i) + 1

(***************************************************************************)
(* The today-view's query (today_view).                                    *)
(***************************************************************************)
\* The bytes of a status string: SQLite orders text by its bytes.
StatusBytes(status) ==
  CASE status = "today" -> <<116, 111, 100, 97, 121>>
    [] status = "scheduled" -> <<115, 99, 104, 101, 100, 117, 108, 101, 100>>
    [] status = "done" -> <<100, 111, 110, 101>>

RECURSIVE BytesLess(_, _)
BytesLess(a, b) ==
  IF Len(b) = 0 THEN FALSE
  ELSE IF Len(a) = 0 THEN TRUE
  ELSE IF a[1] # b[1] THEN a[1] < b[1]
  ELSE BytesLess(Tail(a), Tail(b))

\* Mutant: the id ascending (order_by(Task.status.desc(), Task.id)).
OrderedBefore_IdAscending(t, u) ==
  \/ BytesLess(StatusBytes(u.status), StatusBytes(t.status))
  \/ t.status = u.status /\ t.id < u.id

\* order_by(Task.status.desc(), Task.id.desc()): t sorts before u.
OrderedBefore(t, u) ==
  \/ BytesLess(StatusBytes(u.status), StatusBytes(t.status))
  \/ t.status = u.status /\ t.id > u.id

RECURSIVE OrderBy(_)
OrderBy(rows) ==
  IF rows = {} THEN <<>>
  ELSE LET first == CHOOSE t \in rows : \A u \in rows \ {t} : OrderedBefore(t, u)
       IN  <<first>> \o OrderBy(rows \ {first})

ViewLimit == 3

Limit(rows, n) == SubSeq(rows, 1, Min(n, Len(rows)))

\* A Date column is stored in SQLite as the text YYYY-MM-DD, and the query
\* compares the texts byte by byte.
DateBytes(d) ==
  LET text == isoformat(d)
  IN  [k \in 1..Len(text) |-> IF text[k] = "-" THEN 45 ELSE 48 + DigitVal(text[k])]

Filter(store, day) ==
  {t \in store :
     /\ ~BytesLess(DateBytes(day), DateBytes(t.due_date))
     /\ t.status \in {"today", "scheduled"}}

TodayItems(store, day) == Limit(OrderBy(Filter(store, day)), ViewLimit)

(***************************************************************************)
(* The add form's normalisation (add_task).                                *)
(***************************************************************************)
\* request.form.get(key, default): a form is a record of optional fields.
FormGet(form, key, default) ==
  IF form[key] = None THEN default ELSE CHOOSE v \in form[key] : TRUE

Untitled == <<"U", "n", "t", "i", "t", "l", "e", "d", " ", "T", "a", "s", "k">>

AddTitle(form) ==
  LET t == strip(FormGet(form, "title", <<>>))
  IN  IF t = <<>> THEN Untitled ELSE t

AddSource(form) ==
  LET s == strip(FormGet(form, "source", <<>>))
  IN  IF s = <<>> THEN None ELSE Some(s)

AddTags(form) == strip(FormGet(form, "tags", <<>>))

\* pomos_raw, then int(pomos_raw) if pomos_raw.isdigit() else 1.
AddPomos(form) ==
  LET got == FormGet(form, "pomos", <<"1">>)
      pomos_raw == IF got = <<>> THEN <<"1">> ELSE got
  IN  IF isdigit(pomos_raw) THEN int(pomos_raw) ELSE [ok |-> TRUE, val |-> 1]

\* Mutant: the upper guardrail is missing.
ClampPomos_NoUpper(pomos) == Max(1, pomos)

ClampPomos(pomos) == Max(1, Min(pomos, 8))

\* due_raw, then date.fromisoformat(due_raw).
AddDue(form, day) ==
  LET due_raw == IF form["due"] = None \/ form["due"] = Some(<<>>)
                   THEN isoformat(day)
                   ELSE FormGet(form, "due", <<>>)
  IN  fromisoformat(due_raw)

\* Mutant: an overdue date counts as today (due <= date.today()).
AddStatus_UpToToday(due, day) == IF DateLE(due, day) THEN "today" ELSE "scheduled"

\* Mutant: a later date counts as today (due >= date.today()).
AddStatus_FromToday(due, day) == IF DateLE(day, due) THEN "today" ELSE "scheduled"

AddStatus(due, day) == IF due = day THEN "today" ELSE "scheduled"

NewTask(form, id, day) ==
  [id |-> id,
   title |-> AddTitle(form),
   source |-> AddSource(form),
   tags |-> AddTags(form),
   estimate_pomos |-> ClampPomos(AddPomos(form).val),
   actual_pomos |-> 0,
   due_date |-> AddDue(form, day).val,
   status |-> AddStatus(AddDue(form, day).val, day),
   completed_at |-> None]

\* Whether add_task raises before it reaches the insert.
AddRaises(form, day) == ~AddPomos(form).ok \/ ~AddDue(form, day).ok

(***************************************************************************)
(* The updates of mark_done and delete_task on a row that exists.          *)
(***************************************************************************)
\* Mutant: the status is set and completed_at is not stamped.
MarkDone_NoStamp(store, task_id, day) ==
  LET t == Fetch(store, task_id)
  IN  (store \ {t}) \cup {[t EXCEPT !.status = "done"]}

\* Mutant: marking a done task undoes it.
MarkDone_Toggle(store, task_id, day) ==
  LET t == Fetch(store, task_id)
  IN  (store \ {t}) \cup
        {IF t.status = "done"
           THEN [t EXCEPT !.status = "scheduled", !.completed_at = None]
           ELSE [t EXCEPT !.status = "done", !.completed_at = Some(day)]}

MarkDone(store, task_id, day) ==
  LET t == Fetch(store, task_id)
  IN  (store \ {t}) \cup {[t EXCEPT !.status = "done", !.completed_at = Some(day)]}

\* Mutant: a soft delete, the row is kept and flagged.
Delete_Soft(store, task_id) ==
  LET t == Fetch(store, task_id)
  IN  (store \ {t}) \cup {[t EXCEPT !.status = "done"]}

Delete(store, task_id) == store \ {Fetch(store, task_id)}

(***************************************************************************)
(* Responses.                                                              *)
(***************************************************************************)
\* The last request and its response: the handler, the status code, the
\* task id of the URL, the form submitted and, for the view, the date and
\* the items rendered.
Response(op, code, id, form, day, items) ==
  [op |-> op, code |-> code, id |-> id, form |-> form, today |-> day, items |-> items]

Redirect(op, id, form) == Response(op, 302, id, form, None, <<>>)

NotFound(op, id) == Response(op, 404, id, None, None, <<>>)

ServerError(op, form) == Response(op, 500, 0, form, None, <<>>)

NoResponse == Response("none", 0, 0, None, None, <<>>)

(***************************************************************************)
(* Inputs.                                                                 *)
(***************************************************************************)
RECURSIVE AddDays(_, _)
AddDays(d, n) == IF n = 0 THEN d ELSE AddDays(NextDay(d), n - 1)

LastDate == AddDays(StartDate, MaxTicks)

TitleInputs == {None, Some(<<" ">>), Some(<<" ", "x", " ">>)}

SourceInputs == {None, Some(<<" ">>), Some(<<" ", "s">>)}

TagsInputs == {None, Some(<<" ", "a", ";", "b">>)}

PomosInputs ==
  {None, Some(<<>>), Some(<<"0">>), Some(<<"5">>), Some(<<"9", "9">>),
   Some(<<"a", "b", "c">>), Some(<<"-", "3">>), Some(<<" ", "5">>),
   Some(<<"sup2">>)}

DueInputs ==
  {None, Some(<<>>),
   Some(<<"2", "0", "2", "4", "-", "0", "2", "-", "2", "8">>),
   Some(<<"2", "0", "2", "4", "-", "0", "3", "-", "0", "1">>),
   Some(<<"2", "0", "2", "4", "-", "0", "2", "-", "3", "0">>),
   Some(<<"a", "b", "c">>)}

\* The form with no field, and the forms that set one field of it.
EmptyForm == [title |-> None, source |-> None, tags |-> None, pomos |-> None, due |-> None]

OneField(key, inputs) == {[EmptyForm EXCEPT ![key] = v] : v \in inputs}

\* Forms for the task life cycle: only the due date varies.
DueForms == OneField("due", DueInputs)

\* Forms for the normalisation of add: each field varies alone, and the
\* two fields whose parsing can raise vary together.
AddForms ==
  OneField("title", TitleInputs) \cup OneField("source", SourceInputs)
    \cup OneField("tags", TagsInputs) \cup OneField("pomos", PomosInputs)
    \cup OneField("due", DueInputs)
    \cup {[EmptyForm EXCEPT !["pomos"] = p, !["due"] = d] :
            p \in {Some(<<"5">>), Some(<<"sup2">>)},
            d \in {Some(<<"2", "0", "2", "4", "-", "0", "2", "-", "2", "8">>),
                   Some(<<"a", "b", "c">>)}}

TaskIdInputs == 0..(MaxId + 1)

(***************************************************************************)
(* The handlers.                                                           *)
(***************************************************************************)
Init ==
  /\ tasks = {}
  /\ today = StartDate
  /\ resp = NoResponse
  /\ deleted = {}

\* The shape of the state: the columns of Task and the last response.
TypeOK ==
  /\ \A t \in tasks :
       /\ t.id \in Nat \ {0}
       /\ Len(t.title) > 0
       /\ t.source = None \/ \E src \in t.source : Len(src) > 0
       /\ t.actual_pomos = 0
       /\ Len(t.due_date) = 3
       /\ t.status \in {"scheduled", "today", "done"}
       /\ Cardinality(t.completed_at) <= 1
  /\ \A t, u \in tasks : t.id = u.id => t = u
  /\ Len(today) = 3
  /\ resp.op \in {"none", "view", "add", "done", "delete"}
  /\ resp.code \in {0, 200, 302, 404, 500}
  /\ deleted \subseteq Nat

\* Mutant: the view promotes the scheduled tasks that are due to "today".
today_view_Promotes ==
  /\ resp' = Response("view", 200, 0, None, Some(today), TodayItems(tasks, today))
  /\ tasks' = {IF t.status = "scheduled" /\ DateLE(t.due_date, today)
                 THEN [t EXCEPT !.status = "today"] ELSE t : t \in tasks}
  /\ UNCHANGED <<today, deleted>>

\* GET /
today_view ==
  /\ resp' = Response("view", 200, 0, None, Some(today), TodayItems(tasks, today))
  /\ UNCHANGED <<tasks, today, deleted>>

\* POST /add
add_task(form) ==
  /\ IF AddRaises(form, today)
       THEN /\ resp' = ServerError("add", Some(form))
            /\ UNCHANGED tasks
       ELSE /\ tasks' = tasks \cup {NewTask(form, NextId(tasks), today)}
            /\ resp' = Redirect("add", 0, Some(form))
  /\ UNCHANGED <<today, deleted>>

\* POST /done/<task_id>
mark_done(task_id) ==
  /\ IF task_id \in Ids(tasks)
       THEN /\ tasks' = MarkDone(tasks, task_id, today)
            /\ resp' = Redirect("done", task_id, None)
       ELSE /\ resp' = NotFound("done", task_id)
            /\ UNCHANGED tasks
  /\ UNCHANGED <<today, deleted>>

\* Mutant: the row is deleted by a filter, and a missing row is not reported.
delete_task_NoNotFound(task_id) ==
  /\ tasks' = {t \in tasks : t.id # task_id}
  /\ deleted' = deleted \cup {task_id}
  /\ resp' = Redirect("delete", task_id, None)
  /\ UNCHANGED today

\* POST /delete/<task_id>
delete_task(task_id) ==
  /\ IF task_id \in Ids(tasks)
       THEN /\ tasks' = Delete(tasks, task_id)
            /\ deleted' = deleted \cup {task_id}
            /\ resp' = Redirect("delete", task_id, None)
       ELSE /\ resp' = NotFound("delete", task_id)
            /\ UNCHANGED <<tasks, deleted>>
  /\ UNCHANGED today

\* Midnight passes: date.today() returns the next day from now on.
Tick ==
  /\ today # LastDate
  /\ today' = NextDay(today)
  /\ UNCHANGED <<tasks, resp, deleted>>

Next ==
  \/ today_view
  \/ \E form \in DueForms : NextId(tasks) <= MaxId /\ add_task(form)
  \/ \E task_id \in TaskIdInputs : mark_done(task_id)
  \/ \E task_id \in TaskIdInputs : delete_task(task_id)
  \/ Tick

Spec == Init /\ [][Next]_vars

\* The add form on its own: every form of AddForms.
NextAdd ==
  \/ \E form \in AddForms : NextId(tasks) <= MaxAddId /\ add_task(form)
  \/ \E task_id \in Ids(tasks) \cup {0} : delete_task(task_id)
  \/ Tick

SpecAdd == Init /\ [][NextAdd]_vars

(***************************************************************************)
(* The today-view on its own.  The table persists in trackforge.db between *)
(* runs, so a run starts from any table earlier requests left: each task   *)
(* was added from a form on some day up to now and may have been marked    *)
(* done since.                                                             *)
(***************************************************************************)
\* The view is taken on StartDate or on the day after it.
ViewDates == {StartDate, NextDay(StartDate)}

ViewForms == {f \in DueForms : \A day \in ViewDates : ~AddRaises(f, day)}

\* The rows one task can be on `day` (with id 0, to be replaced).
TaskShapes(day) ==
  LET live == {NewTask(f, 0, added) :
                 f \in ViewForms, added \in {d \in ViewDates : DateLE(d, day)}}
  IN  live \cup UNION {MarkDone({t}, 0, day) : t \in live}

InitView ==
  /\ today \in ViewDates
  /\ \E n \in 0..MaxViewTasks :
       \E shape \in [1..n -> TaskShapes(today)] :
         tasks = {[shape[i] EXCEPT !.id = i] : i \in 1..n}
  /\ resp = NoResponse
  /\ deleted = {}

NextView == today_view

SpecView == InitView /\ [][NextView]_vars

(***************************************************************************)
(* C1: the today-view returns exactly the first min(3, n) of the n tasks   *)
(* with due_date <= today and status today or scheduled, status "today"    *)
(* before "scheduled" and, within a status, larger ids first; it returns   *)
(* no done task and no task due after today.                               *)
(***************************************************************************)
C1_Eligible(day) ==
  {t \in tasks : DateLE(t.due_date, day) /\ t.status \in {"today", "scheduled"}}

C1_Precedes(t, u) ==
  \/ t.status = "today" /\ u.status = "scheduled"
  \/ t.status = u.status /\ t.id > u.id

C1_TodayViewSelection ==
  resp.op = "view" =>
    LET day == CHOOSE d \in resp.today : TRUE
        items == resp.items
        shown == {items[i] : i \in 1..Len(items)}
    IN  /\ Len(items) = Min(3, Cardinality(C1_Eligible(day)))
        /\ shown \subseteq C1_Eligible(day)
        /\ \A i, j \in 1..Len(items) : i < j => C1_Precedes(items[i], items[j])
        /\ \A t \in C1_Eligible(day) \ shown : \A u \in shown : C1_Precedes(u, t)
        /\ \A t \in shown : t.status # "done" /\ ~DateLE(NextDay(day), t.due_date)

\* A view of a table with more than three eligible tasks of both statuses,
\* one of them overdue and still marked "today", and a task that is done or
\* due later.
C1_Witness ==
  /\ resp.op = "view"
  /\ Len(resp.items) = 3
  /\ Cardinality(C1_Eligible(today)) > 3
  /\ \E t \in C1_Eligible(today) : t.status = "today" /\ t.due_date # today
  /\ resp.items[1].status = "today" /\ resp.items[3].status = "scheduled"
  /\ \E t \in tasks : t.status = "done" \/ ~DateLE(t.due_date, today)

(***************************************************************************)
(* C2: completed_at is set if and only if the status is "done": an add     *)
(* leaves a task with no completed_at and status today or scheduled, and   *)
(* a mark-done leaves its task done with completed_at set.                 *)
(***************************************************************************)
C2_CompletedIffDone ==
  /\ \A t \in tasks : (t.completed_at # None) <=> (t.status = "done")
  /\ (resp.op = "add" /\ resp.code = 302) =>
       \E t \in tasks :
         /\ \A u \in tasks : u.id <= t.id
         /\ t.completed_at = None
         /\ t.status \in {"today", "scheduled"}
  /\ (resp.op = "done" /\ resp.code = 302) =>
       \E t \in tasks :
         t.id = resp.id /\ t.status = "done" /\ t.completed_at # None

\* A done task with its completion date beside a task that is not done.
C2_Witness ==
  /\ \E t \in tasks : t.status = "done" /\ t.completed_at = Some(today)
  /\ \E t \in tasks : t.status = "scheduled" /\ t.completed_at = None

(***************************************************************************)
(* C3: the only status change of a stored task is scheduled -> done or     *)
(* today -> done, made by a successful mark-done of that task; a done task *)
(* stays done and no task moves between scheduled and today.               *)
(***************************************************************************)
C3_Step ==
  \A t \in tasks : \A u \in tasks' :
    (t.id = u.id /\ t.status # u.status) =>
      /\ t.status \in {"scheduled", "today"}
      /\ u.status = "done"
      /\ resp'.op = "done" /\ resp'.code = 302 /\ resp'.id = t.id

C3_StatusOneWay == [][C3_Step]_vars

\* A task marked done on a later day than it was due.
C3_Witness ==
  /\ resp.op = "done" /\ resp.code = 302
  /\ today # StartDate
  /\ \E t \in tasks :
       /\ t.id = resp.id
       /\ t.status = "done"
       /\ t.due_date = StartDate
       /\ t.completed_at = Some(today)

C4_Step ==
  /\ \A i \in Ids(tasks) :
       delete_task(i) => i \notin Ids(tasks') /\ tasks' \subseteq tasks
                           /\ Ids(tasks') = Ids(tasks) \ {i}
  /\ \A i \in deleted \ Ids(tasks) :
       /\ (mark_done(i) \/ delete_task(i)) => resp'.code = 404 /\ tasks' = tasks
       /\ i \in Ids(tasks') <=>
            /\ resp'.op = "add" /\ resp'.code = 302 /\ tasks' # tasks
            /\ \A j \in Ids(tasks) : j < i
            /\ i = 1 \/ (i - 1) \in Ids(tasks)

C5_SecondMarkDoneChangesNothing ==
  [][\A i \in TaskIdInputs :
       (resp = Redirect("done", i, None) /\ mark_done(i)) => tasks' = tasks]_vars

(***************************************************************************)
(* C5, amended: a second mark-done of the same task on the date of the     *)
(* first leaves the table as the first call left it; on a later date it    *)
(* keeps the status done and replaces completed_at by the later date.      *)
(***************************************************************************)
C5_Step ==
  \A i \in TaskIdInputs :
    (resp = Redirect("done", i, None) /\ mark_done(i)) =>
      LET t == CHOOSE x \in tasks : x.id = i
      IN  /\ t.status = "done"
          /\ IF t.completed_at = Some(today)
               THEN tasks' = tasks
               ELSE /\ tasks' # tasks
                    /\ tasks' = (tasks \ {t}) \cup {[t EXCEPT !.completed_at = Some(today)]}

C5_SecondMarkDoneSameDate == [][C5_Step]_vars

\* After a mark-done: the task is done and stamped with the current date,
\* another task is untouched.
C5_Witness ==
  /\ resp.op = "done" /\ resp.code = 302
  /\ \E t \in tasks : t.id = resp.id /\ t.completed_at = Some(today)
  /\ \E t \in tasks : t.id # resp.id /\ t.status = "today"

(***************************************************************************)
(* C8: mark-done and delete of an id the table does not hold fail with     *)
(* NotFound and leave the table as it was.                                 *)
(***************************************************************************)
C8_Step ==
  \A i \in TaskIdInputs \ Ids(tasks) :
    (mark_done(i) \/ delete_task(i)) => resp'.code = 404 /\ tasks' = tasks

C8_NotFoundLeavesStore == [][C8_Step]_vars

\* A NotFound for an id while the table holds other tasks.
C8_Witness ==
  /\ resp.code = 404
  /\ resp.id \notin Ids(tasks)
  /\ tasks # {}

(***************************************************************************)
(* C10: while the date never goes back, a task with status "today" has     *)
(* due_date <= the current date, so it passes the today-view's filter and  *)
(* is missing from the view only when the view is full.                    *)
(***************************************************************************)
C10_TodayStatusIsDue ==
  \A t \in tasks :
    t.status = "today" =>
      /\ DateLE(t.due_date, today)
      /\ t \in Filter(tasks, today)
      /\ LET items == TodayItems(tasks, today)
         IN  (\E k \in 1..Len(items) : items[k] = t) \/ Len(items) = 3

\* A task still marked "today" after its due date has passed.
C10_Witness ==
  \E t \in tasks : t.status = "today" /\ t.due_date # today /\ DateLE(t.due_date, today)

(***************************************************************************)
(* A step that handles an add request: the response is an add's, the date  *)
(* is the same, and the table or the response is new.                      *)
(***************************************************************************)
AddHandled == resp'.op = "add" /\ today' = today /\ <<tasks', resp'>> # <<tasks, resp>>

AddedForm == CHOOSE f \in resp'.form : TRUE

(***************************************************************************)
(* C6: every stored estimate_pomos is in 1..8: add stores the pomos field  *)
(* clamped to 1..8 when it is all digits, and 1 when it is absent, empty   *)
(* or not all digits; no other operation changes it.                       *)
(***************************************************************************)
C6_Expected(form) ==
  IF form["pomos"] = None \/ form["pomos"] = Some(<<>>) THEN 1
  ELSE LET raw == CHOOSE v \in form["pomos"] : TRUE
           n == DecimalValue(raw)
       IN  IF \E k \in 1..Len(raw) : raw[k] \notin {"0", "1", "2", "3", "4", "5", "6", "7", "8", "9"}
             THEN 1
             ELSE IF n < 1 THEN 1 ELSE IF n > 8 THEN 8 ELSE n

C6_Step ==
  /\ \A t \in tasks' : t.estimate_pomos \in 1..8
  /\ AddHandled =>
       \A t \in tasks' \ tasks : t.estimate_pomos = C6_Expected(AddedForm)
  /\ \A t \in tasks : \A u \in tasks' :
       t.id = u.id => u.estimate_pomos = t.estimate_pomos

C7_Step ==
  AddHandled =>
    \A t \in tasks' \ tasks :
      LET due == IF AddedForm["due"] = None \/ AddedForm["due"] = Some(<<>>)
                   THEN today
                   ELSE fromisoformat(CHOOSE v \in AddedForm["due"] : TRUE).val
      IN  /\ t.due_date = due
          /\ t.status = "today" <=> due = today
          /\ t.status = "scheduled" <=> due # today

C7_TodayIffDueToday == [][C7_Step]_vars

\* After an add on the day after StartDate of a task due that day, given as
\* a date and stored as today, beside a task due earlier stored as scheduled.
C7_Witness ==
  /\ resp.op = "add" /\ resp.code = 302
  /\ today = NextDay(StartDate)
  /\ \E f \in resp.form : f["due"] = Some(isoformat(today))
  /\ \E t \in tasks : t.status = "scheduled" /\ t.due_date # today /\ DateLE(t.due_date, today)
  /\ \E t \in tasks : t.status = "today" /\ t.due_date = today

(***************************************************************************)
(* C9: add fails only when the due field is given and is not a valid ISO   *)
(* date, and then leaves the table as it was; on every other form it       *)
(* succeeds and inserts exactly one task, with an id the table did not     *)
(* hold, leaving the other tasks as they were.                             *)
(***************************************************************************)
C9_BadDue(form) ==
  /\ form["due"] # None /\ form["due"] # Some(<<>>)
  /\ ~fromisoformat(CHOOSE v \in form["due"] : TRUE).ok

C9_Step ==
  AddHandled =>
    IF C9_BadDue(AddedForm)
      THEN resp'.code # 302 /\ tasks' = tasks
      ELSE /\ resp'.code = 302
           /\ tasks \subseteq tasks'
           /\ Cardinality(tasks' \ tasks) = 1
           /\ \A t \in tasks' \ tasks : t.id \notin Ids(tasks)

C9_AddFailsOnlyOnBadDue == [][C9_Step]_vars

====
